---- MODULE Spec2Model ----
(***************************************************************************)
(* Model of src/app.py: the scrape -> extract -> cache -> summarise        *)
(* pipeline (url_to_filename, scrape_markdown, extract_with_llm,           *)
(* process_url, run_batch).                                                *)
(*                                                                         *)
(* Every Python str is a sequence of one-element strings or tokens, so     *)
(* that all text values have one type: "ERROR" is <<"ERROR">>, a URL is a  *)
(* sequence of characters.  A Python value that may be None is a record    *)
(* [t, v] with t \in {"str", "None"}.                                      *)
(***************************************************************************)
EXTENDS Integers, Sequences, FiniteSets, TLC

VARIABLES url_list, idx, all_results, summary, phase,
          md, json, xlsx, last, fn_in, fn_out

vars == <<url_list, idx, all_results, summary, phase,
          md, json, xlsx, last, fn_in, fn_out>>

\* ---------------------------------------------------------------- bounds
MaxUrlLen == 5
MaxRawLen == 5
MaxItems == 2
MaxBatch == 2

\* ------------------------------------------------------------- utilities
SeqsUpTo(S, n) == UNION {[1..k -> S] : k \in 0..n}

\* s contains part as a contiguous run
Contains(s, part) ==
    \E i \in 0..(Len(s) - Len(part)) :
        \A j \in 1..Len(part) : s[i + j] = part[j]

\* the character class [a-zA-Z0-9]; the input alphabet has representatives
\* of lower case, upper case, digit, and three characters outside the class
Alnum == {"a", "Z", "7"}
UrlChars == Alnum \cup {"/", ".", "_"}

\* re.sub(r'[^a-zA-Z0-9]', '_', url)
ReSub(url) == [i \in 1..Len(url) |-> IF url[i] \in Alnum THEN url[i] ELSE "_"]

\* str.strip(chars): drop the leading and trailing characters that are in chars
RECURSIVE LStrip(_, _)
LStrip(s, chars) ==
    IF s # <<>> /\ Head(s) \in chars THEN LStrip(Tail(s), chars) ELSE s

RECURSIVE RStrip(_, _)
RStrip(s, chars) ==
    IF s # <<>> /\ s[Len(s)] \in chars
    THEN RStrip(SubSeq(s, 1, Len(s) - 1), chars) ELSE s

StrStrip(s, chars) == RStrip(LStrip(s, chars), chars)

url_to_filename_nostrip(url) == LStrip(ReSub(url), {"_"})

url_to_filename(url) == StrStrip(ReSub(url), {"_"})

\* ---------------------------------------------------------------- values
None == [t |-> "None", v |-> <<>>]
PyStr(s) == [t |-> "str", v |-> s]

\* exceptions: a type and the message str(e) is built from
NoErr == [type |-> "none", msg |-> <<>>]
Err(type, msg) == [type |-> type, msg |-> msg]

\* str(e): a KeyError prints the repr of its key, the others their message
Str(e) == IF e.type = "KeyError" THEN <<"'">> \o e.msg \o <<"'">> ELSE e.msg

\* the page text the scraping backend can deliver
Pages == {<<"page">>}
PyValues == {None} \cup {PyStr(p) : p \in Pages}

\* ------------------------------------------------------- scrape_markdown
\* what app.scrape_url can do: raise, or return an object or a dict, with
\* or without a markdown attribute / key, whose value may be None
BackendResults ==
    {[shape |-> "throw", hasMd |-> FALSE, markdown |-> None]}
    \cup [shape : {"object", "dict"}, hasMd : {TRUE}, markdown : PyValues]
    \cup [shape : {"object", "dict"}, hasMd : {FALSE}, markdown : {None}]

Returned(v) == [kind |-> "return", value |-> v, err |-> NoErr]
Raised(e) == [kind |-> "raise", value |-> None, err |-> e]

scrape_markdown(backend) ==
    IF backend.shape = "throw"
    THEN Raised(Err("Exception", <<"transport failure">>))
    ELSE IF backend.shape = "object" /\ backend.hasMd
    THEN Returned(backend.markdown)
    ELSE IF backend.shape = "dict" /\ backend.hasMd
    THEN Returned(backend.markdown)
    ELSE Raised(Err("ValueError", <<"No markdown found in scraped content.">>))

\* ------------------------------------------------------ extract_with_llm
\* characters of an LLM response: braces, "k" for a body that makes
\* {k} a JSON object matching Listings, "x" for any other text, " " blank
RawChars == {"{", "}", "k", "x", " "}

\* the dict of one ProductItem, keyed by field name (parsed.dict())
ProductItem(i) ==
    [product_name |-> <<"name", i>>, product_link |-> <<"link", i>>,
     brand |-> <<"n/a">>, Flavors |-> <<"n/a">>]

Listings(n) == [i \in 1..n |-> ProductItem(IF i = 1 THEN "1" ELSE IF i = 2 THEN "2" ELSE "3")]

FirstIndex(s, c) ==
    IF \E i \in 1..Len(s) : s[i] = c
    THEN CHOOSE i \in 1..Len(s) : s[i] = c /\ \A j \in 1..(i - 1) : s[j] # c
    ELSE 0

LastIndex(s, c) ==
    IF \E i \in 1..Len(s) : s[i] = c
    THEN CHOOSE i \in 1..Len(s) : s[i] = c /\ \A j \in (i + 1)..Len(s) : s[j] # c
    ELSE 0

\* re.match instead of re.search: the span must start the text
ReMatchBraces(s) ==
    IF s # <<>> /\ s[1] = "{" /\ LastIndex(s, "}") > 1
    THEN [found |-> TRUE, group |-> SubSeq(s, 1, LastIndex(s, "}"))]
    ELSE [found |-> FALSE, group |-> <<>>]

\* re.search(r'\{.*\}', s, re.DOTALL): leftmost "{" to the last "}"
ReSearchBraces(s) ==
    IF FirstIndex(s, "{") > 0 /\ LastIndex(s, "}") > FirstIndex(s, "{")
    THEN [found |-> TRUE, group |-> SubSeq(s, FirstIndex(s, "{"), LastIndex(s, "}"))]
    ELSE [found |-> FALSE, group |-> <<>>]

\* parser.parse(json_str): JSON decoding, then validation against Listings
ParserParse(json_str, n) ==
    IF json_str = <<"{", "k", "}">>
    THEN Returned(Listings(n))
    ELSE IF json_str = <<"{", "}">>
    THEN Raised(Err("OutputParserException", <<"items: field required">>))
    ELSE Raised(Err("OutputParserException", <<"Invalid json output">>))

\* the try block of the primary parse: search, .group(), parse, .dict()
PrimaryParse(raw_output, n) ==
    IF ReSearchBraces(raw_output).found
    THEN ParserParse(ReSearchBraces(raw_output).group, n)
    ELSE Raised(Err("AttributeError",
                    <<"'NoneType' object has no attribute 'group'">>))

\* fixing_parser.parse(raw_output): the repair pass either delivers a
\* validated Listings or raises
FixingParse(raw_output, repairOk, n) ==
    IF repairOk THEN Returned(Listings(n))
    ELSE Raised(Err("OutputParserException", <<"repair failed">>))

\* the ValueError of the last except block, without the raw output
ExtractionErrorShort(final_err, raw_output) ==
    Err("ValueError",
        <<"Failed to extract ListingInfo. Final error: ">> \o Str(final_err))

\* the ValueError of the last except block
ExtractionError(final_err, raw_output) ==
    Err("ValueError",
        <<"Failed to extract ListingInfo. Final error: ">> \o Str(final_err)
        \o <<"\nRaw Output:\n">> \o raw_output)

\* one LLM: how chat.invoke ends, the response text, the number of
\* products it lists, and whether the repair pass succeeds
LLMs(contents) ==
    [invoke : {"ok", "throw"}, content : contents,
     n : 0..MaxItems, repairOk : BOOLEAN]

ExtractResult(r, primaryCalls, repairCalls, raw_output, origErr, finalErr) ==
    [kind |-> r.kind, value |-> IF r.kind = "return" THEN r.value ELSE <<>>,
     err |-> r.err,
     primaryCalls |-> primaryCalls, repairCalls |-> repairCalls,
     raw_output |-> raw_output, origErr |-> origErr, finalErr |-> finalErr]

extract_with_llm(data, llm) ==
    LET raw_output == StrStrip(llm.content, {" "})
        parsed == PrimaryParse(raw_output, llm.n)
        fixed == FixingParse(raw_output, llm.repairOk, llm.n)
    IN IF llm.invoke = "throw"
       THEN ExtractResult(Raised(Err("Exception", <<"LLM call failed">>)),
                          1, 0, <<>>, NoErr, NoErr)
       ELSE IF parsed.kind = "return"
       THEN ExtractResult(parsed, 1, 0, raw_output, NoErr, NoErr)
       ELSE IF fixed.kind = "return"
       THEN ExtractResult(fixed, 1, 1, raw_output, parsed.err, NoErr)
       ELSE ExtractResult(Raised(ExtractionError(fixed.err, raw_output)),
                          1, 1, raw_output, parsed.err, fixed.err)

\* ------------------------------------------------------------ the disk
\* one file of the output folder: whether it exists, and its content
Absent == [exists |-> FALSE, data |-> <<>>]
File(data) == [exists |-> TRUE, data |-> data]

\* the URLs of a batch; the first two normalise to the same base name
UrlSet == {<<"a">>, <<"a", "/">>, <<"Z", ".", "7">>}
Bases == {url_to_filename(u) : u \in UrlSet}

\* I/O that can fail in one call of process_url: every read of a file,
\* every open of a file for writing, or the export to Excel
Faults == {"none", "read", "write", "to_excel"}

\* the responses the batch model draws from: a bare object, an object in
\* surrounding text, and text without braces (SpecExtract has them all)
RawSamples == {<<"{", "k", "}">>, <<"x", "{", "k", "}", " ">>, <<"x">>}

\* json.dump / json.load: a dict is written as its key/value pairs in
\* insertion order and read back as a dict
KeyOrder == <<"product_name", "product_link", "brand", "Flavors", "url">>

RECURSIVE Pairs(_, _)
Pairs(item, keys) ==
    IF keys = <<>> THEN <<>>
    ELSE IF Head(keys) \in DOMAIN item
    THEN <<[k |-> Head(keys), v |-> item[Head(keys)]]>> \o Pairs(item, Tail(keys))
    ELSE Pairs(item, Tail(keys))

JsonDump(items) == [i \in 1..Len(items) |-> Pairs(items[i], KeyOrder)]

Dict(pairs) ==
    [key \in {pairs[j].k : j \in 1..Len(pairs)} |->
        (CHOOSE q \in {pairs[j] : j \in 1..Len(pairs)} : q.k = key).v]

JsonLoad(data) == [i \in 1..Len(data) |-> Dict(data[i])]

\* item["url"] = url for every item
Stamp(items, url) ==
    [i \in 1..Len(items) |->
        [key \in DOMAIN items[i] \cup {"url"} |->
            IF key = "url" THEN url ELSE items[i][key]]]

\* ----------------------------------------------------------- process_url
ErrorRow(url, e) ==
    [url |-> url, product_description |-> <<"ERROR">>, product_link |-> Str(e)]

RawPathExistsNever(f) == FALSE

\* os.path.exists(raw_path)
RawPathExists(f) == f.exists

JsonPathExistsNever(f) == FALSE

\* os.path.exists(json_path)
JsonPathExists(f) == f.exists

Stage(r, file, ncalls, wrote) ==
    [r |-> r, file |-> file, calls |-> ncalls, wrote |-> wrote]

\* "Load or scrape raw markdowns"
RawFetch(url, mdf, backend, fault) ==
    LET s == scrape_markdown(backend)
    IN IF RawPathExists(mdf)
       THEN IF fault = "read"
            THEN Stage(Raised(Err("OSError", <<"cannot read raw file">>)),
                       mdf, 0, FALSE)
            ELSE Stage(Returned(PyStr(mdf.data)), mdf, 0, FALSE)
       ELSE IF s.kind = "raise" THEN Stage(s, mdf, 1, FALSE)
       ELSE IF fault = "write"
       THEN Stage(Raised(Err("OSError", <<"cannot open raw file">>)),
                  mdf, 1, FALSE)
       ELSE IF s.value.t # "str"
       THEN Stage(Raised(Err("TypeError",
                             <<"write() argument must be str, not None">>)),
                  File(<<>>), 1, TRUE)
       ELSE Stage(s, File(s.value.v), 1, TRUE)

XStage(r, jsonf, xlsxf, e, wrote) ==
    [r |-> r, json |-> jsonf, xlsx |-> xlsxf, wrote |-> wrote,
     primaryCalls |-> e.primaryCalls, repairCalls |-> e.repairCalls,
     extracted |-> e.kind = "return", n |-> Len(e.value)]

NoExtract ==
    [kind |-> "none", value |-> <<>>, primaryCalls |-> 0, repairCalls |-> 0]

\* "Load or extract structured data"
Extract(url, raw_data, jsonf, xlsxf, llm, fault) ==
    LET e == extract_with_llm(raw_data, llm)
        stamped == Stamp(e.value, url)
    IN IF JsonPathExists(jsonf)
       THEN IF fault = "read"
            THEN XStage(Raised(Err("OSError", <<"cannot read json file">>)),
                        jsonf, xlsxf, NoExtract, FALSE)
            ELSE XStage(Returned(JsonLoad(jsonf.data)), jsonf, xlsxf,
                        NoExtract, FALSE)
       ELSE IF e.kind = "raise"
       THEN XStage(Raised(e.err), jsonf, xlsxf, e, FALSE)
       ELSE IF fault = "write"
       THEN XStage(Raised(Err("OSError", <<"cannot open json file">>)),
                   jsonf, xlsxf, e, FALSE)
       ELSE IF fault = "to_excel"
       THEN XStage(Raised(Err("Exception", <<"to_excel failed">>)),
                   File(JsonDump(stamped)), xlsxf, e, TRUE)
       ELSE XStage(Returned(stamped), File(JsonDump(stamped)),
                   File(JsonDump(stamped)), e, TRUE)

RowKeys == <<"url", "product_description", "product_link">>

\* the first key of RowKeys that item lacks
MissingKey(item) ==
    RowKeys[CHOOSE j \in 1..3 :
               /\ RowKeys[j] \notin DOMAIN item
               /\ \A h \in 1..(j - 1) : RowKeys[h] \in DOMAIN item]

\* a reduction that reads the field the schema populates
ReduceByName(items) ==
    Returned([i \in 1..Len(items) |->
                [url |-> items[i]["url"],
                 product_description |-> items[i]["product_name"],
                 product_link |-> items[i]["product_link"]]])

\* "Build output with url, product_description, and product_link"
Reduce(items) ==
    IF \E i \in 1..Len(items) : \E j \in 1..3 : RowKeys[j] \notin DOMAIN items[i]
    THEN LET i == CHOOSE i \in 1..Len(items) :
                     /\ \E j \in 1..3 : RowKeys[j] \notin DOMAIN items[i]
                     /\ \A h \in 1..(i - 1) :
                            \A j \in 1..3 : RowKeys[j] \in DOMAIN items[h]
         IN Raised(Err("KeyError", <<MissingKey(items[i])>>))
    ELSE Returned([i \in 1..Len(items) |->
                     [url |-> items[i]["url"],
                      product_description |-> items[i]["product_description"],
                      product_link |-> items[i]["product_link"]]])

CatchesNoKeyError(e) == e.type # "KeyError"

\* except Exception as e: every exception of the try block is an Exception
Catches(e) == TRUE

\* the error of the try block, or NoErr
TryError(f, x, red) ==
    IF f.r.kind = "raise" THEN f.r.err
    ELSE IF x.r.kind = "raise" THEN x.r.err
    ELSE IF red.kind = "raise" THEN red.err
    ELSE NoErr

process_url(url, mdf, jsonf, xlsxf, backend, llm, fault) ==
    LET f == RawFetch(url, mdf, backend, fault)
        fetched == f.r.kind = "return"
        x == IF fetched
             THEN Extract(url, f.r.value.v, jsonf, xlsxf, llm, fault)
             ELSE XStage(Raised(NoErr), jsonf, xlsxf, NoExtract, FALSE)
        loaded == fetched /\ x.r.kind = "return"
        red == IF loaded THEN Reduce(x.r.value) ELSE Raised(NoErr)
        e == TryError(f, x, red)
    IN [rows |-> IF e = NoErr THEN red.value
                 ELSE IF Catches(e) THEN <<ErrorRow(url, e)>> ELSE <<>>,
        escaped |-> e # NoErr /\ ~Catches(e),
        raised |-> e,
        md |-> f.file, json |-> x.json, xlsx |-> x.xlsx,
        scrapeCalls |-> f.calls, wroteMd |-> f.wrote, wroteJson |-> x.wrote,
        primaryCalls |-> x.primaryCalls, repairCalls |-> x.repairCalls,
        extracted |-> x.extracted, n |-> x.n]

\* -------------------------------------------------------------- run_batch
\* what the latest call of process_url did, and all_results before it
CallRecord(i, url, out, mdf, jsonf, backend, before) ==
    [called |-> TRUE, i |-> i, url |-> url, before |-> before,
     mdExisted |-> mdf.exists, jsonExisted |-> jsonf.exists,
     jsonSame |-> out.json = jsonf,
     scrapeCalls |-> out.scrapeCalls,
     lacksText |-> /\ out.scrapeCalls = 1
                   /\ backend.shape # "throw"
                   /\ ~(backend.hasMd /\ backend.markdown.t = "str"),
     scrapeKind |-> IF out.scrapeCalls = 1
                    THEN scrape_markdown(backend).kind ELSE "none",
     scrapeErr |-> IF out.scrapeCalls = 1
                   THEN scrape_markdown(backend).err ELSE NoErr,
     scrapeType |-> IF out.scrapeCalls = 1
                    THEN scrape_markdown(backend).value.t ELSE "None",
     fetchThrew |-> out.scrapeCalls = 1 /\ backend.shape = "throw",
     llmUsed |-> out.primaryCalls + out.repairCalls > 0,
     extracted |-> out.extracted, n |-> out.n,
     wroteMd |-> out.wroteMd, wroteJson |-> out.wroteJson,
     raised |-> out.raised, escaped |-> out.escaped, rows |-> out.rows]

\* before the first call
NoCall ==
    [called |-> FALSE, i |-> 0, url |-> <<>>, before |-> <<>>,
     mdExisted |-> FALSE, jsonExisted |-> FALSE, jsonSame |-> TRUE,
     scrapeCalls |-> 0, lacksText |-> FALSE, scrapeKind |-> "none",
     scrapeErr |-> NoErr, scrapeType |-> "None", fetchThrew |-> FALSE,
     llmUsed |-> FALSE, extracted |-> FALSE, n |-> 0,
     wroteMd |-> FALSE, wroteJson |-> FALSE,
     raised |-> NoErr, escaped |-> FALSE, rows |-> <<>>]

\* an input that a call does not consume is fixed, not enumerated
NoBackend == [shape |-> "throw", hasMd |-> FALSE, markdown |-> None]
NoLLM == [invoke |-> "throw", content |-> <<>>, n |-> 0, repairOk |-> FALSE]

Init ==
    /\ url_list \in SeqsUpTo(UrlSet, MaxBatch)
    /\ idx = 0
    /\ all_results = <<>>
    /\ summary = Absent
    /\ phase = "start"
    /\ md = [b \in Bases |-> Absent]
    /\ json = [b \in Bases |-> Absent]
    /\ xlsx = [b \in Bases |-> Absent]
    /\ last = NoCall
    /\ fn_in = <<>>
    /\ fn_out = <<>>

\* run_batch up to its loop: ensure_output_dir, all_results = []
RunBatch ==
    /\ phase = "start"
    /\ phase' = "loop"
    /\ idx' = 1
    /\ all_results' = <<>>
    /\ UNCHANGED <<url_list, summary, md, json, xlsx, last, fn_in, fn_out>>

\* one iteration of the loop: process_url(url), all_results.extend(result);
\* an exception leaving process_url would end run_batch without a summary
ProcessNext ==
    /\ phase = "loop"
    /\ idx <= Len(url_list)
    /\ \E url \in {url_list[idx]} :
       \E b \in {url_to_filename(url)} :
       \E fault \in Faults :
       \E backend \in IF RawPathExists(md[b]) THEN {NoBackend} ELSE BackendResults :
       \E llm \in IF \/ JsonPathExists(json[b])
                     \/ RawFetch(url, md[b], backend, fault).r.kind = "raise"
                  THEN {NoLLM} ELSE LLMs(RawSamples) :
       \E out \in {process_url(url, md[b], json[b], xlsx[b], backend, llm, fault)} :
          /\ md' = [md EXCEPT ![b] = out.md]
          /\ json' = [json EXCEPT ![b] = out.json]
          /\ xlsx' = [xlsx EXCEPT ![b] = out.xlsx]
          /\ last' = CallRecord(idx, url, out, md[b], json[b], backend, all_results)
          /\ IF out.escaped
             THEN /\ phase' = "crashed"
                  /\ UNCHANGED <<idx, all_results>>
             ELSE /\ phase' = "loop"
                  /\ idx' = idx + 1
                  /\ all_results' = all_results \o out.rows
    /\ UNCHANGED <<url_list, summary, fn_in, fn_out>>

\* after the loop: the DataFrame of all_results goes to summary_path
WriteSummary ==
    /\ phase = "loop"
    /\ idx > Len(url_list)
    /\ summary' = File(all_results)
    /\ phase' = "done"
    /\ UNCHANGED <<url_list, idx, all_results, md, json, xlsx, last, fn_in, fn_out>>

Next == RunBatch \/ ProcessNext \/ WriteSummary

Spec == Init /\ [][Next]_vars

\* ------------------------------------- url_to_filename on every short URL
InitNorm ==
    /\ fn_in \in SeqsUpTo(UrlChars, MaxUrlLen)
    /\ fn_out = <<>>
    /\ phase = "norm"
    /\ url_list = <<>> /\ idx = 0 /\ all_results = <<>> /\ summary = Absent
    /\ md = [b \in Bases |-> Absent] /\ json = [b \in Bases |-> Absent]
    /\ xlsx = [b \in Bases |-> Absent] /\ last = NoCall

Normalize ==
    /\ phase = "norm"
    /\ fn_out' = url_to_filename(fn_in)
    /\ phase' = "normed"
    /\ UNCHANGED <<url_list, idx, all_results, summary, md, json, xlsx, last, fn_in>>

NextNorm == Normalize

SpecNorm == InitNorm /\ [][NextNorm]_vars

\* ---------------------------------- extract_with_llm on every short reply
InitExtract ==
    /\ fn_in \in [data : Pages, llm : LLMs(SeqsUpTo(RawChars, MaxRawLen))]
    /\ fn_out = <<>>
    /\ phase = "extract"
    /\ url_list = <<>> /\ idx = 0 /\ all_results = <<>> /\ summary = Absent
    /\ md = [b \in Bases |-> Absent] /\ json = [b \in Bases |-> Absent]
    /\ xlsx = [b \in Bases |-> Absent] /\ last = NoCall

ExtractCall ==
    /\ phase = "extract"
    /\ fn_out' = extract_with_llm(fn_in.data, fn_in.llm)
    /\ phase' = "extracted"
    /\ UNCHANGED <<url_list, idx, all_results, summary, md, json, xlsx, last, fn_in>>

NextExtract == ExtractCall

SpecExtract == InitExtract /\ [][NextExtract]_vars

\* ------------------------------------------------------------ properties
SameBase(u, v) == url_to_filename(u) = url_to_filename(v)

\* C1: every call of process_url returns at least one row (the URL's
\* record rows or one ErrorRow), whatever the cache state, the fetch and
\* the extraction did, an empty items sequence included.
C1_NonEmpty ==
    (last.called /\ ~last.escaped) => Len(last.rows) >= 1

\* C2: process_url never raises to run_batch; when a step of the try block
\* raised for URL u the call returned exactly the one row
\* {url: u, product_description: "ERROR", product_link: str(error)}, and
\* run_batch extended all_results with it and moved on to the next URL.
C2_NeverRaises ==
    last.called =>
        /\ ~last.escaped
        /\ phase \in {"loop", "done"}
        /\ idx = last.i + 1
        /\ all_results = last.before \o last.rows
        /\ last.raised # NoErr =>
              last.rows = <<[url |-> last.url,
                             product_description |-> <<"ERROR">>,
                             product_link |-> Str(last.raised)]>>

\* the first URL of a two-URL batch failed with an ErrorRow, and the second
\* URL was processed after it and failed in the reduction
C2_Witness ==
    /\ Len(url_list) = 2 /\ idx = 3 /\ last.called /\ last.i = 2
    /\ Len(last.before) = 1
    /\ last.before[1].product_description = <<"ERROR">>
    /\ last.raised.type = "KeyError"

\* C3: from an empty output directory the summary is the concatenation of
\* the URLs' contributions: n rows with url = u and the records' values for
\* a URL whose fetch and extraction succeed with n >= 1 records, one
\* ErrorRow for a URL whose fetch throws; [A, B] with two records for A and
\* a throwing fetch for B gives 3 rows.
C3_Summary ==
    /\ last.called => all_results = last.before \o last.rows
    /\ phase = "done" => summary = File(all_results)
    /\ (last.called /\ last.fetchThrew) =>
          /\ Len(last.rows) = 1
          /\ last.rows[1].product_description = <<"ERROR">>
    /\ (/\ last.called /\ ~last.mdExisted /\ ~last.jsonExisted
        /\ last.extracted /\ last.n >= 1
        /\ xlsx[url_to_filename(last.url)].exists) =>
          /\ Len(last.rows) = last.n
          /\ \A r \in 1..Len(last.rows) :
                /\ last.rows[r].url = last.url
                /\ last.rows[r].product_description # <<"ERROR">>
    /\ (/\ phase = "done" /\ Len(url_list) = 2
        /\ ~SameBase(url_list[1], url_list[2])
        /\ Len(json[url_to_filename(url_list[1])].data) = 2
        /\ xlsx[url_to_filename(url_list[1])].exists
        /\ last.fetchThrew) =>
          Len(summary.data) = 3

\* C4: a call that finds both <base>.md and <base>.json makes no call of
\* scrape_markdown and none of the LLM, writes neither artifact, and leaves
\* <base>.json as it was.
C4_CacheHit ==
    (last.called /\ last.mdExisted /\ last.jsonExisted) =>
        /\ last.scrapeCalls = 0
        /\ ~last.llmUsed
        /\ ~last.wroteMd
        /\ ~last.wroteJson
        /\ last.jsonSame

\* the same URL processed again with both artifacts on disk
C4_Witness ==
    /\ last.called /\ last.mdExisted /\ last.jsonExisted
    /\ last.i = 2 /\ url_list[1] = url_list[2]

\* C5: an existing <base>.md or <base>.json is never written again or
\* changed; a path is written only by a call that found it absent, and the
\* fetcher and the LLM are used only when the file is absent.
C5_WriteOnce ==
    [][/\ \A b \in Bases :
             /\ md[b].exists => md'[b] = md[b]
             /\ json[b].exists => json'[b] = json[b]
       /\ last'.wroteMd => ~last'.mdExisted
       /\ last'.wroteJson => ~last'.jsonExisted
       /\ last'.called => (last'.scrapeCalls = 0 <=> last'.mdExisted)
       /\ last'.llmUsed => ~last'.jsonExisted]_vars

\* a second URL with the same base name found the first URL's raw file but
\* no structured file, and failed
C5_Witness ==
    /\ last.called /\ last.i = 2
    /\ url_list[1] # url_list[2] /\ SameBase(url_list[1], url_list[2])
    /\ last.mdExisted /\ ~last.jsonExisted
    /\ last.raised # NoErr
    /\ md[url_to_filename(last.url)].data = <<"page">>

\* C8: scrape_markdown returns the page text as a string or fails: a
\* backend result without textual content, in either accepted shape or any
\* other, makes it raise the no-content error, and it never returns a
\* non-text value to process_url.
C8_NoContent ==
    (last.called /\ last.scrapeCalls = 1) =>
        /\ last.lacksText =>
              /\ last.scrapeKind = "raise"
              /\ last.scrapeErr =
                    Err("ValueError", <<"No markdown found in scraped content.">>)
        /\ last.scrapeKind = "return" => last.scrapeType = "str"

\* C10: every row process_url(u) returns has url = u, also when the
\* structured data comes from an existing <base>.json and when two URLs of
\* the batch share a base name.
C10_RowUrl ==
    last.called => \A r \in 1..Len(last.rows) : last.rows[r].url = last.url

\* the second URL shares the first one's base name and was served the
\* first one's non-empty <base>.json
C10_Witness ==
    /\ last.called /\ last.i = 2 /\ last.jsonExisted
    /\ url_list[1] # url_list[2] /\ SameBase(url_list[1], url_list[2])
    /\ Len(json[url_to_filename(last.url)].data) >= 1
    /\ Len(last.rows) >= 1

\* {k} stands in s with no "{" before it and no "}" after it: the
\* brace span of s is one well-formed object matching the schema
SpanIsObject(s) ==
    \E i \in 1..(Len(s) - 2) :
        /\ s[i] = "{" /\ s[i + 1] = "k" /\ s[i + 2] = "}"
        /\ \A j \in 1..(i - 1) : s[j] # "{"
        /\ \A j \in (i + 3)..Len(s) : s[j] # "}"

\* s holds one {k} and no other brace
SingleObject(s) ==
    \E i \in 1..(Len(s) - 2) :
        /\ s[i] = "{" /\ s[i + 1] = "k" /\ s[i + 2] = "}"
        /\ \A j \in (1..Len(s)) \ {i, i + 2} : s[j] \notin {"{", "}"}

\* C6: one call of extract_with_llm invokes the LLM once for the primary
\* pass and runs the repair pass exactly when the primary parse raised,
\* never more than once; a response holding a single well-formed
\* schema-matching object returns on the first pass without repair.
C6_RepairOnce ==
    phase = "extracted" =>
        /\ fn_out.primaryCalls = 1
        /\ fn_out.repairCalls \in {0, 1}
        /\ fn_out.repairCalls = 1 <=>
              (fn_in.llm.invoke = "ok" /\ ~SpanIsObject(fn_in.llm.content))
        /\ (fn_in.llm.invoke = "ok" /\ SingleObject(fn_in.llm.content)) =>
              /\ fn_out.kind = "return"
              /\ fn_out.repairCalls = 0
              /\ Len(fn_out.value) = fn_in.llm.n

\* a single object between text and a blank was parsed on the first pass
C6_Witness ==
    /\ phase = "extracted"
    /\ fn_in.llm.invoke = "ok"
    /\ fn_in.llm.content = <<"x", "{", "k", "}", " ">>
    /\ fn_out.kind = "return" /\ fn_out.repairCalls = 0

\* the primary parse and the repair pass both raised
BothFailed ==
    /\ phase = "extracted"
    /\ fn_in.llm.invoke = "ok"
    /\ ~SpanIsObject(fn_in.llm.content)
    /\ ~fn_in.llm.repairOk

SafeName(out) ==
    /\ \A i \in 1..Len(out) : out[i] \in Alnum \cup {"_"}
    /\ out # <<>> => (out[1] # "_" /\ out[Len(out)] # "_")

====
